---- MODULE Spec2Model ----
(***************************************************************************)
(* Model of src/main.py: the incremental history synchronisation of the    *)
(* ElevenLabs archive dashboard.                                           *)
(*                                                                         *)
(*   - safe_request   : retrying HTTP client (lines 54-70)                 *)
(*   - save_message   : idempotent per-item persistence (lines 75-119)     *)
(*   - sync_history   : the paginated sync coroutine (lines 124-170)       *)
(*   - manual_sync / stop_sync : the two control routes (lines 175-187)    *)
(*                                                                         *)
(* sync_history is an asyncio coroutine run as a background task: it holds *)
(* the event loop from one suspension point to the next, and its only      *)
(* suspension point is `await asyncio.sleep(0)` (line 161).  The routes    *)
(* are plain `def` handlers, run on worker threads, so they interleave     *)
(* with the coroutine at any point; they touch only sync_running.          *)
(***************************************************************************)
EXTENDS Integers, Sequences, FiniteSets, TLC

\* Python None / JSON null / "no value".
None == "none"

\* ---------------------------------------------------------------- bounds
\* Number of background-task slots (sync_history tasks alive at once).
MaxTasks == 2
\* Largest `retries` argument explored for safe_request.
MaxRetries == 3
\* Cap on the per-run logs of requests, pages and checkpoint writes.
MaxLog == 3

Tasks == 1..MaxTasks

\* ------------------------------------------------------ program constants
DISABLE_DOWNLOADS == FALSE
DefaultRetries == 3

\* ---------------------------------------------------------------- state
VARIABLES
    sync_running,   \* the module-level flag (line 19)
    pc,             \* per task: position of the sync_history coroutine
    evloop,         \* task currently holding the event loop, 0 when free
    cursor,         \* per task: local `cursor`
    data,           \* per task: page decoded from the last response (0: none)
    idx,            \* per task: position of the for loop in the page
    ckptFile,       \* contents of SYNC_FILE
    chat,           \* derived path -> MessageRecord (0 absent, else item id)
    voice,          \* derived path -> AudioArtifact (0 absent, else item id)
    collide,        \* remote fixture: items 2 and 3 fall in the same second
    p2next,         \* remote fixture: next_cursor of the last page
    lastSave,       \* per task: outcome of the save_message call it sleeps after
    fullPages,      \* pages some run has called save_message on every item of
    synthReq,       \* per item: synthesis safe_request calls issued so far
    reqs,           \* per task: cursors sent by this run's history requests
    got,            \* per task: pages this run received and decoded
    writes,         \* per task: checkpoint writes of this run
    clean,          \* per task: no stop request since this run began
    resp,           \* per task: local `r`, the last history response
    synthRes,       \* per task: what the synthesis call of its last save gave
    phase,          \* start/stop history: "none", "started" or "stopped"
    rqIn,           \* safe_request harness: the call's inputs
    rqOut           \* safe_request harness: the call's outcome

remoteVars == <<collide, p2next>>
diskVars == <<ckptFile, chat, voice>>
taskVars == <<pc, evloop, cursor, data, idx>>
runVars == <<reqs, got, writes, clean, lastSave, resp, synthRes>>
rqVars == <<rqIn, rqOut>>

syncVars == <<sync_running, taskVars, diskVars, remoteVars, runVars,
              fullPages, synthReq>>

vars == <<syncVars, rqVars, phase>>

\* ------------------------------------------------------------ safe_request
\* Per-attempt outcomes of requests.request: a status code or an exception.
Outcomes == {"200", "429", "500", "exc"}

\* time.sleep(2 ** attempt), lines 64 and 69.
BackoffLinear(attempt) == 2 * attempt
Backoff(attempt) == 2 ^ attempt

\* `if r.status_code == 429`, line 63.
IsRateLimitedOrError(status) == status \in {"429", "500"}
IsRateLimited(status) == status = "429"

\* range(retries), line 59: the number of attempts.
AttemptsOneMore(retries) == retries + 1
Attempts(retries) == retries

\* The for loop of lines 59-70, from attempt number `attempt` on, having
\* slept `slept` so far.  outs[k] is what the k-th network call yields.
RECURSIVE RequestLoop(_, _, _, _)
RequestLoop(attempt, retries, outs, slept) ==
    IF attempt >= Attempts(retries)
    THEN [r |-> None, calls |-> attempt, slept |-> slept]
    ELSE LET o == outs[attempt + 1] IN
         IF o = "exc"
         THEN RequestLoop(attempt + 1, retries, outs, slept + Backoff(attempt))
         ELSE IF IsRateLimited(o)
         THEN RequestLoop(attempt + 1, retries, outs, slept + Backoff(attempt))
         ELSE [r |-> o, calls |-> attempt + 1, slept |-> slept]

safe_request(disabled, retries, outs) ==
    IF disabled
    THEN [r |-> None, calls |-> 0, slept |-> 0]
    ELSE RequestLoop(0, retries, outs, 0)

\* Outcome sequences long enough for any call with at most n retries.
OutcomeSeqs(n) == [1..(n + 1) -> Outcomes]

\* Everything a call with the default retries can yield (lines 102, 139).
DefaultResults ==
    {safe_request(DISABLE_DOWNLOADS, DefaultRetries, outs) :
        outs \in OutcomeSeqs(DefaultRetries)}

\* ----------------------------------------------------------- remote side
\* The remote history: page 1 (3 items, more to come), page 2 (1 item, the
\* last page), and an empty page behind any other cursor.  date_unix is
\* counted in half seconds so that two items can share a second.
ItemIds == 1..4
Pages == 1..3

Item(k) ==
    [id        |-> k,
     date_unix |-> CASE k = 1 -> 10
                     [] k = 2 -> 12
                     [] k = 3 -> IF collide THEN 13 ELSE 14
                     [] OTHER -> 16,
     text      |-> k # 4,
     voice_id  |-> k # 3]

\* The remotes explored: <<collide, p2next>>.
Remotes == {<<FALSE, None>>, <<TRUE, "">>, <<FALSE, "xyz">>}

\* Python truthiness of a cursor value (`if cursor:`, line 136).
Truthy(c) == c \notin {None, ""}

\* The `cursor` request parameter, lines 135-137 (None: parameter absent).
RequestCursor(c) == IF Truthy(c) THEN c ELSE None

\* The page the remote serves for a request.
PageOf(c) == IF c = None THEN 1 ELSE IF c = "abc" THEN 2 ELSE 3

\* data.get("history", []), data.get("next_cursor"), data.get("has_more").
PageItems(p) == IF p = 1 THEN <<1, 2, 3>> ELSE IF p = 2 THEN <<4>> ELSE <<>>
NextCursor(p) == IF p = 1 THEN "abc" ELSE IF p = 2 THEN p2next ELSE None
HasMore(p) == p = 1

\* ----------------------------------------------------------- persistence
\* load_sync_state, lines 37-44: the state record read from SYNC_FILE, or
\* {"cursor": None} when the file is missing or does not parse.
load_sync_state_fresh(file) == [cursor |-> None]
load_sync_state(file) ==
    IF file \in {"absent", "corrupt"}
    THEN [cursor |-> None]
    ELSE [cursor |-> file]

\* strftime("%Y-%m-%d") + strftime("%H-%M-%S"), lines 78-89: the second.
DerivedPath(date_unix) == date_unix \div 2

Paths == {DerivedPath(d) : d \in 10..16}

\* os.path.exists on a chat or voice file, lines 90 and 101.
PathExistsNever(files, p) == FALSE
PathExists(files, p) == files[p] # 0

\* `if r and r.status_code == 200`, line 114.
SynthOkAny(r) == r # None
SynthOk(r) == r # None /\ r = "200"

\* `if text and voice_id`, line 99.
NeedsAudioEither(item) == item.text \/ item.voice_id
NeedsAudio(item) == item.text /\ item.voice_id

\* save_message either runs through or raises before the record is written
\* (a date_unix that is no number, makedirs or open failing); the exception
\* is caught at line 118.
SaveFaults == {"ok", "early"}

\* save_message, lines 75-119, on the files ch (chat) and vo (voice).  res is
\* what safe_request yields if it is called.  The result: the files after the
\* call, whether safe_request was called, what it gave (r) and the network
\* calls it made, and which way the call went.
save_message(k, ch, vo, fault, res) ==
    LET item == Item(k)
        p == DerivedPath(item.date_unix)
    IN  IF fault = "early"
        THEN [chat |-> ch, voice |-> vo, synth |-> FALSE, calls |-> 0,
              r |-> "unset", outcome |-> "error"]
        ELSE IF PathExists(ch, p)
        THEN [chat |-> ch, voice |-> vo, synth |-> FALSE, calls |-> 0,
              r |-> "unset", outcome |-> "skipped"]
        ELSE IF NeedsAudio(item) /\ ~PathExists(vo, p)
        THEN [chat |-> [ch EXCEPT ![p] = k],
              voice |-> IF SynthOk(res.r) THEN [vo EXCEPT ![p] = k] ELSE vo,
              synth |-> TRUE, calls |-> res.calls, r |-> res.r,
              outcome |-> "written"]
        ELSE [chat |-> [ch EXCEPT ![p] = k], voice |-> vo, synth |-> FALSE,
              calls |-> 0, r |-> "unset", outcome |-> "written"]

\* save_sync_state, lines 47-49: the write succeeds, open() fails, or the
\* write fails after open() truncated the file.  The result is the file.
WriteFaults == {"ok", "open", "truncated"}

save_sync_state(state, file, fault) ==
    IF fault = "ok" THEN state.cursor
    ELSE IF fault = "truncated" THEN "corrupt"
    ELSE file

\* ------------------------------------------------------------ sync_history
\* Positions of the coroutine:
\*   idle       no task in this slot
\*   scheduled  add_task was called (line 179), the task has not begun
\*   while      about to test `while sync_running` (line 134)
\*   fetch      about to request a page (lines 135-155)
\*   for        about to take the next item (lines 157-159)
\*   save       about to call save_message (line 160)
\*   sleep      suspended in asyncio.sleep(0) (line 161)
\*   ckpt       about to checkpoint (lines 163-167)
\*   end        about to clear the flag (line 169)
LoopPcs == {"while", "fetch", "for", "save", "sleep", "ckpt", "end"}

Append1(s, x) == IF Len(s) < MaxLog THEN Append(s, x) ELSE s
Inc1(n) == IF n < MaxLog THEN n + 1 ELSE n

\* The task's run is over: its locals are dropped and the loop is released.
Finish(t) ==
    /\ pc' = [pc EXCEPT ![t] = "idle"]
    /\ evloop' = 0
    /\ cursor' = [cursor EXCEPT ![t] = None]
    /\ data' = [data EXCEPT ![t] = 0]
    /\ idx' = [idx EXCEPT ![t] = 0]
    /\ reqs' = [reqs EXCEPT ![t] = <<>>]
    /\ got' = [got EXCEPT ![t] = <<>>]
    /\ writes' = [writes EXCEPT ![t] = 0]
    /\ clean' = [clean EXCEPT ![t] = FALSE]
    /\ lastSave' = [lastSave EXCEPT ![t] = "none"]
    /\ resp' = [resp EXCEPT ![t] = "unset"]
    /\ synthRes' = [synthRes EXCEPT ![t] = "unset"]

\* Lines 124-132: the task begins, sets the flag and loads the checkpoint.
Begin(t) ==
    /\ pc[t] = "scheduled"
    /\ evloop = 0
    /\ IF DISABLE_DOWNLOADS
       THEN /\ Finish(t)
            /\ UNCHANGED sync_running
       ELSE /\ sync_running' = TRUE
            /\ evloop' = t
            /\ cursor' = [cursor EXCEPT ![t] = load_sync_state(ckptFile).cursor]
            /\ pc' = [pc EXCEPT ![t] = "while"]
            /\ clean' = [clean EXCEPT ![t] = TRUE]
            /\ UNCHANGED <<data, idx, reqs, got, writes, lastSave, resp,
                           synthRes>>
    /\ UNCHANGED <<diskVars, remoteVars, fullPages, synthReq>>

\* Line 134.
While(t) ==
    /\ pc[t] = "while"
    /\ evloop = t
    /\ pc' = [pc EXCEPT ![t] = IF sync_running THEN "fetch" ELSE "end"]
    /\ UNCHANGED <<sync_running, evloop, cursor, data, idx, diskVars,
                   remoteVars, runVars, fullPages, synthReq>>

\* `if not r or r.status_code != 200`, line 146.
HistoryFailedOnlyNone(r) == r = None
HistoryFailed(r) == r = None \/ r # "200"

\* Lines 135-155: request a page; give up on failure, decode it, stop on an
\* empty page.  bodyOk = FALSE: r.json() raises and the coroutine dies.
Fetch(t) ==
    /\ pc[t] = "fetch"
    /\ evloop = t
    /\ \E res \in DefaultResults, bodyOk \in BOOLEAN :
          LET c == RequestCursor(cursor[t])
              page == PageOf(c)
          IN  IF HistoryFailed(res.r)
              THEN /\ pc' = [pc EXCEPT ![t] = "end"]
                   /\ reqs' = [reqs EXCEPT ![t] = Append1(@, c)]
                   /\ resp' = [resp EXCEPT ![t] = res.r]
                   /\ UNCHANGED <<evloop, cursor, data, idx, got, writes,
                                  clean, lastSave, synthRes>>
              ELSE IF ~bodyOk
              THEN Finish(t)
              ELSE /\ reqs' = [reqs EXCEPT ![t] = Append1(@, c)]
                   /\ resp' = [resp EXCEPT ![t] = res.r]
                   /\ got' = [got EXCEPT ![t] = Append1(@, page)]
                   /\ data' = [data EXCEPT ![t] = page]
                   /\ idx' = [idx EXCEPT ![t] = 1]
                   /\ pc' = [pc EXCEPT ![t] =
                               IF PageItems(page) = <<>> THEN "end" ELSE "for"]
                   /\ UNCHANGED <<evloop, cursor, writes, clean, lastSave,
                                  synthRes>>
    /\ UNCHANGED <<sync_running, diskVars, remoteVars, fullPages, synthReq>>

\* Lines 157-159: the page is exhausted, or the flag is down (break), or the
\* next item is taken.
For(t) ==
    /\ pc[t] = "for"
    /\ evloop = t
    /\ IF idx[t] > Len(PageItems(data[t]))
       THEN /\ pc' = [pc EXCEPT ![t] = "ckpt"]
            /\ fullPages' = fullPages \cup {data[t]}
       ELSE /\ pc' = [pc EXCEPT ![t] = IF ~sync_running THEN "ckpt" ELSE "save"]
            /\ UNCHANGED fullPages
    /\ UNCHANGED <<sync_running, evloop, cursor, data, idx, diskVars,
                   remoteVars, runVars, synthReq>>

\* Lines 160-161: save the item, then yield the event loop.  faults are the
\* filesystem faults that may strike this call.
SaveWithRaise(t, faults) ==
    /\ pc[t] = "save"
    /\ evloop = t
    /\ \E fault \in faults, res \in DefaultResults :
          LET k == PageItems(data[t])[idx[t]]
              s == save_message(k, chat, voice, fault, res)
          IN  IF s.outcome = "error"
              THEN /\ Finish(t)
                   /\ UNCHANGED <<sync_running, diskVars, synthReq>>
              ELSE /\ chat' = s.chat
                   /\ voice' = s.voice
                   /\ synthReq' = IF s.synth
                                  THEN [synthReq EXCEPT ![k] = Inc1(@)]
                                  ELSE synthReq
                   /\ lastSave' = [lastSave EXCEPT ![t] = s.outcome]
                   /\ synthRes' = [synthRes EXCEPT ![t] = s.r]
                   /\ pc' = [pc EXCEPT ![t] = "sleep"]
                   /\ evloop' = 0
                   /\ UNCHANGED <<sync_running, cursor, data, idx, ckptFile,
                                  reqs, got, writes, clean, resp>>
    /\ UNCHANGED <<remoteVars, fullPages>>

SaveWith(t, faults) ==
    /\ pc[t] = "save"
    /\ evloop = t
    /\ \E fault \in faults, res \in DefaultResults :
          LET k == PageItems(data[t])[idx[t]]
              s == save_message(k, chat, voice, fault, res)
          IN  /\ chat' = s.chat
              /\ voice' = s.voice
              /\ synthReq' = IF s.synth THEN [synthReq EXCEPT ![k] = Inc1(@)]
                             ELSE synthReq
              /\ lastSave' = [lastSave EXCEPT ![t] = s.outcome]
              /\ synthRes' = [synthRes EXCEPT ![t] = s.r]
    /\ pc' = [pc EXCEPT ![t] = "sleep"]
    /\ evloop' = 0
    /\ UNCHANGED <<sync_running, cursor, data, idx, ckptFile, remoteVars,
                   reqs, got, writes, clean, resp, fullPages>>

Save(t) == SaveWith(t, SaveFaults)

\* Line 161: the event loop resumes the coroutine, which moves to the next
\* item.
Resume(t) ==
    /\ pc[t] = "sleep"
    /\ evloop = 0
    /\ evloop' = t
    /\ idx' = [idx EXCEPT ![t] = @ + 1]
    /\ pc' = [pc EXCEPT ![t] = "for"]
    /\ lastSave' = [lastSave EXCEPT ![t] = "none"]
    /\ synthRes' = [synthRes EXCEPT ![t] = "unset"]
    /\ UNCHANGED <<sync_running, cursor, data, diskVars, remoteVars, reqs, got,
                   writes, clean, resp, fullPages, synthReq>>

\* Lines 163-167: take the page's next_cursor, write the checkpoint, leave the
\* loop when the remote has no more pages.  A failing write kills the
\* coroutine.
CkptSkipLast(t) ==
    /\ pc[t] = "ckpt"
    /\ evloop = t
    /\ cursor' = [cursor EXCEPT ![t] = NextCursor(data[t])]
    /\ IF HasMore(data[t])
       THEN /\ ckptFile' = NextCursor(data[t])
            /\ writes' = [writes EXCEPT ![t] = Inc1(@)]
            /\ pc' = [pc EXCEPT ![t] = "while"]
       ELSE /\ pc' = [pc EXCEPT ![t] = "end"]
            /\ UNCHANGED <<ckptFile, writes>>
    /\ UNCHANGED <<sync_running, evloop, data, idx, chat, voice, remoteVars,
                   reqs, got, clean, lastSave, resp, synthRes, fullPages,
                   synthReq>>

Ckpt(t) ==
    /\ pc[t] = "ckpt"
    /\ evloop = t
    /\ \E fault \in WriteFaults :
          LET state == [cursor |-> NextCursor(data[t])] IN
          /\ ckptFile' = save_sync_state(state, ckptFile, fault)
          /\ IF fault = "ok"
             THEN /\ cursor' = [cursor EXCEPT ![t] = state.cursor]
                  /\ writes' = [writes EXCEPT ![t] = Inc1(@)]
                  /\ pc' = [pc EXCEPT ![t] =
                              IF ~HasMore(data[t]) THEN "end" ELSE "while"]
                  /\ UNCHANGED <<evloop, data, idx, reqs, got, clean, lastSave,
                                 resp, synthRes>>
             ELSE Finish(t)
    /\ UNCHANGED <<sync_running, chat, voice, remoteVars, fullPages, synthReq>>

\* Lines 169-170: clear the flag; the task is over.
End(t) ==
    /\ pc[t] = "end"
    /\ evloop = t
    /\ sync_running' = FALSE
    /\ Finish(t)
    /\ UNCHANGED <<diskVars, remoteVars, fullPages, synthReq>>

\* ------------------------------------------------------------------ routes
\* manual_sync, lines 175-180: schedule sync_history unless the flag is up.
manual_sync ==
    /\ \E t \in Tasks : pc[t] = "idle"
    /\ IF ~sync_running
       THEN LET t == CHOOSE u \in Tasks :
                        pc[u] = "idle" /\ \A v \in Tasks : pc[v] = "idle" => u <= v
            IN  pc' = [pc EXCEPT ![t] = "scheduled"]
       ELSE UNCHANGED pc
    /\ UNCHANGED <<sync_running, evloop, cursor, data, idx, diskVars,
                   remoteVars, runVars, fullPages, synthReq>>

\* stop_sync, lines 183-187.
stop_sync ==
    /\ sync_running' = FALSE
    /\ clean' = [t \in Tasks |-> FALSE]
    /\ UNCHANGED <<taskVars, diskVars, remoteVars, reqs, got, writes, lastSave,
                   resp, synthRes, fullPages, synthReq>>

\* The process is killed and started again: module state is re-initialised
\* (line 19), every task is gone, the files stay.
Restart ==
    /\ sync_running' = FALSE
    /\ pc' = [t \in Tasks |-> "idle"]
    /\ evloop' = 0
    /\ cursor' = [t \in Tasks |-> None]
    /\ data' = [t \in Tasks |-> 0]
    /\ idx' = [t \in Tasks |-> 0]
    /\ reqs' = [t \in Tasks |-> <<>>]
    /\ got' = [t \in Tasks |-> <<>>]
    /\ writes' = [t \in Tasks |-> 0]
    /\ clean' = [t \in Tasks |-> FALSE]
    /\ lastSave' = [t \in Tasks |-> "none"]
    /\ resp' = [t \in Tasks |-> "unset"]
    /\ synthRes' = [t \in Tasks |-> "unset"]
    /\ UNCHANGED <<diskVars, remoteVars, fullPages, synthReq>>

\* ------------------------------------------------------------ specification
RqIdle == [disabled |-> FALSE, retries |-> 0, outs |-> <<>>]
RqNone == [done |-> FALSE, r |-> None, calls |-> 0, slept |-> 0]

InitSync ==
    /\ sync_running = FALSE
    /\ pc = [t \in Tasks |-> "idle"]
    /\ evloop = 0
    /\ cursor = [t \in Tasks |-> None]
    /\ data = [t \in Tasks |-> 0]
    /\ idx = [t \in Tasks |-> 0]
    /\ ckptFile = "absent"
    /\ chat = [p \in Paths |-> 0]
    /\ voice = [p \in Paths |-> 0]
    /\ lastSave = [t \in Tasks |-> "none"]
    /\ fullPages = {}
    /\ synthReq = [k \in ItemIds |-> 0]
    /\ reqs = [t \in Tasks |-> <<>>]
    /\ got = [t \in Tasks |-> <<>>]
    /\ writes = [t \in Tasks |-> 0]
    /\ clean = [t \in Tasks |-> FALSE]
    /\ resp = [t \in Tasks |-> "unset"]
    /\ synthRes = [t \in Tasks |-> "unset"]
    /\ phase = "none"

Init ==
    /\ InitSync
    /\ \E r \in Remotes : collide = r[1] /\ p2next = r[2]
    /\ rqIn = RqIdle
    /\ rqOut = RqNone

Next ==
    \/ manual_sync /\ UNCHANGED <<rqVars, phase>>
    \/ stop_sync /\ UNCHANGED <<rqVars, phase>>
    \/ Restart /\ UNCHANGED <<rqVars, phase>>
    \/ \E t \in Tasks : Begin(t) /\ UNCHANGED <<rqVars, phase>>
    \/ \E t \in Tasks : While(t) /\ UNCHANGED <<rqVars, phase>>
    \/ \E t \in Tasks : Fetch(t) /\ UNCHANGED <<rqVars, phase>>
    \/ \E t \in Tasks : For(t) /\ UNCHANGED <<rqVars, phase>>
    \/ \E t \in Tasks : Save(t) /\ UNCHANGED <<rqVars, phase>>
    \/ \E t \in Tasks : Resume(t) /\ UNCHANGED <<rqVars, phase>>
    \/ \E t \in Tasks : Ckpt(t) /\ UNCHANGED <<rqVars, phase>>
    \/ \E t \in Tasks : End(t) /\ UNCHANGED <<rqVars, phase>>

Spec == Init /\ [][Next]_vars

\* ------------------------------------------------- safe_request in isolation
\* The inputs of one call are drawn at the start; Call performs it.
InitReq ==
    /\ InitSync
    /\ collide = FALSE
    /\ p2next = None
    /\ rqIn \in [disabled : BOOLEAN, retries : 0..MaxRetries,
                 outs : OutcomeSeqs(MaxRetries)]
    /\ rqOut = RqNone

Call ==
    /\ ~rqOut.done
    /\ LET res == safe_request(rqIn.disabled, rqIn.retries, rqIn.outs)
       IN  rqOut' = [done |-> TRUE, r |-> res.r, calls |-> res.calls,
                     slept |-> res.slept]
    /\ UNCHANGED rqIn
    /\ UNCHANGED <<syncVars, phase>>

NextReq == Call

SpecReq == InitReq /\ [][NextReq]_vars

\* ------------------------------------------------------------------ claims
\* The item a task at "save" or "sleep" is working on, and its derived path.
SavedItem(t) == PageItems(data[t])[idx[t]]
ItemPath(k) == DerivedPath(Item(k).date_unix)

\* Task t performs save_message in this step.
SaveStep(t) == pc[t] = "save" /\ pc'[t] = "sleep"

\* The page a task at "ckpt" holds was left by the break of line 159.
PartialPage(t) == pc[t] = "ckpt" /\ idx[t] <= Len(PageItems(data[t]))

\* C1: when a stop request arrives before the last item of a page has been
\* processed, no checkpoint write happens for that page: a task that left
\* the item loop early does not write the checkpoint.
C1_NoCheckpointAfterStop ==
    [][\A t \in Tasks : PartialPage(t) => writes'[t] # writes[t] + 1]_vars

\* C2: in every reachable state the cursor in the checkpoint file is the
\* initial value (none) or the next_cursor of a page for which save_message
\* was called on every item.
C2_CheckpointOnlyFullPages ==
    \/ ckptFile \in {"absent", "corrupt", None}
    \/ \E p \in fullPages : NextCursor(p) = ckptFile

\* C3: at most one sync_history loop is active at any time.
C3_AtMostOneLoop ==
    Cardinality({t \in Tasks : pc[t] \in LoopPcs}) <= 1

\* C4: save_message on an item whose MessageRecord the first call wrote
\* changes no file and issues no synthesis request, and no item ever gets
\* more than one synthesis request.
C4_SaveIdempotent ==
    /\ [][\A t \in Tasks :
             (SaveStep(t) /\ chat[ItemPath(SavedItem(t))] = SavedItem(t))
                => (chat' = chat /\ voice' = voice /\ synthReq' = synthReq)]_vars
    /\ [](\A k \in ItemIds : synthReq[k] <= 1)

\* C4 witness: an item with text and voice_id whose first save produced no
\* audio has been saved a second time.
C4_Witness ==
    \E t \in Tasks :
        /\ pc[t] = "sleep"
        /\ lastSave[t] = "skipped"
        /\ NeedsAudio(Item(SavedItem(t)))
        /\ chat[ItemPath(SavedItem(t))] = SavedItem(t)
        /\ voice[ItemPath(SavedItem(t))] = 0
        /\ synthReq[SavedItem(t)] = 1

\* Task t issues the first history request of its run in this step.
FirstRequest(t) == pc[t] = "fetch" /\ Len(reqs[t]) = 0 /\ Len(reqs'[t]) = 1

\* C5 as stated: the first history request of a run carries the cursor
\* stored in the checkpoint file, and carries no cursor only when the
\* checkpoint is absent, unreadable or holds a null cursor.
C5_FirstRequestFromCheckpoint ==
    [][\A t \in Tasks :
          FirstRequest(t) =>
             reqs'[t][1] = (IF ckptFile \in {"absent", "corrupt", None}
                            THEN None ELSE ckptFile)]_vars

\* C5 amended: the first history request of a run carries the cursor stored
\* in the checkpoint file, and carries no cursor only when the checkpoint is
\* absent, unreadable or holds a null or empty cursor.
C5_FirstRequestFromTruthyCheckpoint ==
    [][\A t \in Tasks :
          FirstRequest(t) =>
             reqs'[t][1] = (IF ckptFile \in {"absent", "corrupt", None, ""}
                            THEN None ELSE ckptFile)]_vars

\* C5 witness: a run resumed from the checkpointed cursor "abc".
C5_Witness ==
    \E t \in Tasks :
        /\ Len(reqs[t]) = 1
        /\ reqs[t][1] = "abc"
        /\ ckptFile = "abc"

\* What the calls of the isolated safe_request were made of.
Failing(o) == o \in {"429", "exc"}
Response(o) == o \in {"200", "500"}

RECURSIVE SumPow2(_)
SumPow2(n) == IF n = 0 THEN 0 ELSE 2 ^ (n - 1) + SumPow2(n - 1)

\* C6: with downloads enabled, when every attempt fails (429 or exception)
\* safe_request makes exactly `retries` network calls and returns None.
C6_RetryCeiling ==
    (/\ rqOut.done
     /\ ~rqIn.disabled
     /\ \A i \in 1..rqIn.retries : Failing(rqIn.outs[i]))
        => (rqOut.r = None /\ rqOut.calls = rqIn.retries)

\* C6 witness: three attempts, a mix of 429 and exceptions, all failed.
C6_Witness ==
    /\ rqOut.done
    /\ ~rqIn.disabled
    /\ rqIn.retries = DefaultRetries
    /\ rqIn.outs[1] = "429"
    /\ rqIn.outs[2] = "exc"
    /\ rqIn.outs[3] = "429"
    /\ rqOut.r = None

\* C7: after N consecutive 429 responses, N below the retry ceiling,
\* followed by a non-429 response, the cumulative sleep is the sum of 2^i
\* for i in 0..N-1.
C7_Backoff ==
    \A n \in 0..MaxRetries :
        (/\ rqOut.done
         /\ ~rqIn.disabled
         /\ n < rqIn.retries
         /\ \A i \in 1..n : rqIn.outs[i] = "429"
         /\ Response(rqIn.outs[n + 1]))
            => rqOut.slept = SumPow2(n)

\* C7 witness: two 429 responses, then a 200.
C7_Witness ==
    /\ rqOut.done
    /\ ~rqIn.disabled
    /\ rqIn.retries = DefaultRetries
    /\ rqIn.outs[1] = "429"
    /\ rqIn.outs[2] = "429"
    /\ rqIn.outs[3] = "200"
    /\ rqOut.slept = 3

\* C8: the first response whose status is not 429 is returned at once: it is
\* the result, it was the last network call, and nothing was slept after it
\* (the sleeps are those of the failed attempts before it).
C8_NoRetryOfResponses ==
    \A k \in 1..MaxRetries :
        (/\ rqOut.done
         /\ ~rqIn.disabled
         /\ k <= rqIn.retries
         /\ \A i \in 1..(k - 1) : Failing(rqIn.outs[i])
         /\ Response(rqIn.outs[k]))
            => (/\ rqOut.r = rqIn.outs[k]
                /\ rqOut.calls = k
                /\ rqOut.slept = SumPow2(k - 1))

\* C8 witness: a 429, then a 500 that is returned although retries remain.
C8_Witness ==
    /\ rqOut.done
    /\ ~rqIn.disabled
    /\ rqIn.retries = DefaultRetries
    /\ rqIn.outs[1] = "429"
    /\ rqIn.outs[2] = "500"
    /\ rqOut.r = "500"
    /\ rqOut.calls = 2

\* An item without text or without voice_id.
Gated(k) == ~Item(k).text \/ ~Item(k).voice_id

\* C9 as stated: an item without text or without voice_id never gets a
\* synthesis request, and no AudioArtifact ever exists at its derived audio
\* path.
C9_NoAudioAtGatedPath ==
    \A k \in ItemIds :
        Gated(k) => (synthReq[k] = 0 /\ voice[ItemPath(k)] = 0)

\* C9 amended: save_message on an item without text or without voice_id
\* issues no synthesis request and creates no AudioArtifact; every
\* AudioArtifact stems from an item that has both.
C9_AudioGating ==
    /\ [][\A t \in Tasks :
             (SaveStep(t) /\ Gated(SavedItem(t)))
                => (voice' = voice /\ synthReq' = synthReq)]_vars
    /\ [](\A k \in ItemIds :
             Gated(k) => (synthReq[k] = 0 /\ \A p \in Paths : voice[p] # k))

\* C9 witness: the MessageRecord of an item without text or without voice_id
\* has just been written.
C9_Witness ==
    \E t \in Tasks :
        /\ pc[t] = "sleep"
        /\ lastSave[t] = "written"
        /\ Gated(SavedItem(t))
        /\ chat[ItemPath(SavedItem(t))] = SavedItem(t)

\* C10: a run that received page 1 (has_more, next_cursor "abc") and then
\* page 2 (no more), with no stop, has written the checkpoint exactly twice,
\* sent "abc" with its second request, and leaves page 2's next_cursor in
\* the checkpoint file.
C10_TwoPageRun ==
    \A t \in Tasks :
        (pc[t] = "end" /\ clean[t] /\ got[t] = <<1, 2>>)
            => (/\ writes[t] = 2
                /\ reqs[t] = <<None, "abc">>
                /\ ckptFile = NextCursor(2))

\* C10 witness: such a run is about to end, page 2 having no next_cursor.
C10_Witness ==
    \E t \in Tasks :
        /\ pc[t] = "end"
        /\ clean[t]
        /\ got[t] = <<1, 2>>
        /\ p2next = None
        /\ ckptFile = None

\* The history request of line 139 came back as None or with a status other
\* than 200, and the task stands before line 169.
FetchFailed(t) == pc[t] = "end" /\ resp[t] \in {None, "500"}

\* C11: a history request that yields None or a non-200 response ends the
\* run at once: the step that receives it goes to the end of sync_history
\* without a save_message call or a checkpoint write, and from there the task
\* touches no file, makes no synthesis request, and leaves with sync_running
\* false.
C11_FetchFailureAborts ==
    [][\A t \in Tasks :
          /\ (pc[t] = "fetch" /\ resp'[t] \in {None, "500"})
                => (/\ pc'[t] = "end"
                    /\ UNCHANGED <<diskVars, synthReq>>
                    /\ got'[t] = got[t]
                    /\ writes'[t] = writes[t])
          /\ FetchFailed(t)
                => (/\ pc'[t] \in {"end", "idle"}
                    /\ UNCHANGED <<diskVars, synthReq>>
                    /\ pc'[t] = "idle" => ~sync_running')]_vars

\* C11 witness: the request for the second page came back with status 500;
\* the checkpoint file still holds the cursor written after page 1.
C11_Witness ==
    \E t \in Tasks :
        /\ FetchFailed(t)
        /\ resp[t] = "500"
        /\ got[t] = <<1>>
        /\ writes[t] = 1
        /\ ckptFile = "abc"

\* A stop request was handled after task t began its run.
StoppedRun(t) == pc[t] \in LoopPcs /\ ~clean[t]

\* C12: once a stop request has arrived during a run, the loop leaves at its
\* next item or iteration boundary: from the flag test of the item loop
\* (line 158) it does not go on to save_message, and from the flag test of
\* the while loop (line 134) it does not go on to a history request.
C12_StopEndsLoop ==
    [][\A t \in Tasks :
          /\ (StoppedRun(t) /\ pc[t] = "for") => pc'[t] # "save"
          /\ (StoppedRun(t) /\ pc[t] = "while") => pc'[t] # "fetch"]_vars

\* C13: whenever a started run is over, sync_running is false: a task leaves
\* sync_history only with the flag down.
C13_RunEndsWithFlagCleared ==
    [][\A t \in Tasks :
          (pc[t] \in LoopPcs /\ pc'[t] = "idle") => ~sync_running']_vars

\* The j-th page task t received in this run is behind it.
PageDone(t, j) ==
    /\ j \in 1..Len(got[t])
    /\ j < Len(got[t]) \/ pc[t] \in {"while", "fetch", "end"}

\* No MessageRecord exists for some item of page p.  In a run without a stop
\* that has page p behind it this is what a failed save_message leaves.
RecordMissing(p) ==
    \E i \in 1..Len(PageItems(p)) : chat[ItemPath(PageItems(p)[i])] = 0

\* C14: a save_message call that fails does not end the run: the call
\* returns to the loop, which yields and goes on with the next item, and a
\* run without a stop that has left a page with a missing MessageRecord
\* behind it has written the checkpoint for that page.
C14_SaveErrorContained ==
    /\ [][\A t \in Tasks :
             /\ Save(t)
                   => (/\ pc'[t] = "sleep"
                       /\ lastSave'[t] = "error"
                             => UNCHANGED <<diskVars, synthReq>>)
             /\ (pc[t] = "sleep" /\ lastSave[t] = "error" /\ Resume(t))
                   => (pc'[t] = "for" /\ idx'[t] = idx[t] + 1)]_vars
    /\ [](\A t \in Tasks : \A j \in 1..MaxLog :
             (clean[t] /\ PageDone(t, j) /\ RecordMissing(got[t][j]))
                => writes[t] >= j)

\* C14 witness: in a run without a stop, save_message failed for an item of
\* page 1; the checkpoint of page 1 was written and page 2 was requested,
\* received and checkpointed.
C14_Witness ==
    \E t \in Tasks :
        /\ pc[t] = "end"
        /\ clean[t]
        /\ got[t] = <<1, 2>>
        /\ chat[ItemPath(1)] = 0
        /\ writes[t] = 2

\* C15 as stated: an AudioArtifact exists at an item's derived audio path
\* only if that item has both text and voice_id.
C15_AudioOnlyAtOwnPath ==
    \A k \in ItemIds : voice[ItemPath(k)] # 0 => NeedsAudio(Item(k))

\* C15 amended: an AudioArtifact is written only by a save_message call on
\* an item with both text and voice_id whose synthesis call returned 200, at
\* that item's path and beside its MessageRecord; when the synthesis call
\* returns None or another status the MessageRecord is on disk without
\* audio and the loop goes on with the next item.
C15_SynthesisFailureLocal ==
    /\ [][/\ voice' # voice => \E t \in Tasks : SaveStep(t)
          /\ \A t \in Tasks :
                /\ (SaveStep(t) /\ voice' # voice)
                      => (/\ NeedsAudio(Item(SavedItem(t)))
                          /\ synthRes'[t] = "200"
                          /\ voice' = [voice EXCEPT
                                         ![ItemPath(SavedItem(t))] = SavedItem(t)]
                          /\ chat'[ItemPath(SavedItem(t))] = SavedItem(t))
                /\ (SaveStep(t) /\ synthRes'[t] \in {None, "500"})
                      => (/\ voice' = voice
                          /\ voice[ItemPath(SavedItem(t))] = 0
                          /\ chat'[ItemPath(SavedItem(t))] = SavedItem(t))
                /\ (pc[t] = "sleep" /\ synthRes[t] \in {None, "500"} /\ Resume(t))
                      => (pc'[t] = "for" /\ idx'[t] = idx[t] + 1)]_vars
    /\ [](\A p \in Paths :
             voice[p] # 0 => (/\ NeedsAudio(Item(voice[p]))
                              /\ ItemPath(voice[p]) = p
                              /\ chat[p] = voice[p]))

\* C15 witness: the synthesis call for an item with text and voice_id came
\* back with status 500; its MessageRecord is on disk, no audio is.
C15_Witness ==
    \E t \in Tasks :
        /\ pc[t] = "sleep"
        /\ synthRes[t] = "500"
        /\ lastSave[t] = "written"
        /\ chat[ItemPath(SavedItem(t))] = SavedItem(t)
        /\ voice[ItemPath(SavedItem(t))] = 0

\* The pages with at least one item that task t received and has left behind.
PagesLeft(t) ==
    {j \in 1..Len(got[t]) :
        /\ PageItems(got[t][j]) # <<>>
        /\ j < Len(got[t]) \/ pc[t] \in {"while", "fetch", "end"}}

\* C16: every page with at least one item that a run received is followed
\* by exactly one checkpoint write before the next history request and
\* before the run ends: the run has written the checkpoint once for each
\* such page it has left behind and for no other, and the write that closes
\* a page stores that page's next_cursor, whether has_more is set or not.
C16_CheckpointPerPage ==
    /\ [](\A t \in Tasks :
             pc[t] \in LoopPcs => writes[t] = Cardinality(PagesLeft(t)))
    /\ [][\A t \in Tasks :
             (pc[t] = "ckpt" /\ pc'[t] \in {"while", "end"})
                => (/\ writes'[t] = writes[t] + 1
                    /\ ckptFile' = NextCursor(data[t]))]_vars

\* C16 witness: a run resumed at the last page, which carries no
\* next_cursor, has written null to the checkpoint file and is about to end.
C16_Witness ==
    \E t \in Tasks :
        /\ pc[t] = "end"
        /\ got[t] = <<2>>
        /\ resp[t] = "200"
        /\ writes[t] = 1
        /\ p2next = None
        /\ ckptFile = None

\* The MessageRecord path of item k holds the record of another item.
TakenByOther(k) == chat[ItemPath(k)] \notin {0, k}

\* C17: of two items whose timestamps truncate to the same second the one
\* saved first keeps the MessageRecord: a record once written is never
\* replaced, and save_message on the later item changes no file, makes no
\* synthesis call and comes back without an error of its own.
C17_CollisionDropsLater ==
    [][/\ \A p \in Paths : chat[p] # 0 => chat'[p] = chat[p]
       /\ \A t \in Tasks :
             (SaveStep(t) /\ TakenByOther(SavedItem(t)))
                => (/\ UNCHANGED <<diskVars, synthReq>>
                    /\ synthRes'[t] = "unset"
                    /\ \A res \in DefaultResults :
                          save_message(SavedItem(t), chat, voice, "ok",
                                       res).outcome = "skipped")]_vars

\* C17 witness: save_message has just returned for an item whose path holds
\* the record of the other item of the same second.
C17_Witness ==
    \E t \in Tasks :
        /\ pc[t] = "sleep"
        /\ lastSave[t] = "skipped"
        /\ collide
        /\ TakenByOther(SavedItem(t))
        /\ ItemPath(chat[ItemPath(SavedItem(t))]) = ItemPath(SavedItem(t))

\* The machine in which no save_message call fails: every step of Next, the
\* filesystem faults of save_message left out.
NextNoSaveError ==
    \/ manual_sync /\ UNCHANGED <<rqVars, phase>>
    \/ stop_sync /\ UNCHANGED <<rqVars, phase>>
    \/ Restart /\ UNCHANGED <<rqVars, phase>>
    \/ \E t \in Tasks : Begin(t) /\ UNCHANGED <<rqVars, phase>>
    \/ \E t \in Tasks : While(t) /\ UNCHANGED <<rqVars, phase>>
    \/ \E t \in Tasks : Fetch(t) /\ UNCHANGED <<rqVars, phase>>
    \/ \E t \in Tasks : For(t) /\ UNCHANGED <<rqVars, phase>>
    \/ \E t \in Tasks : SaveWith(t, {"ok"}) /\ UNCHANGED <<rqVars, phase>>
    \/ \E t \in Tasks : Resume(t) /\ UNCHANGED <<rqVars, phase>>
    \/ \E t \in Tasks : Ckpt(t) /\ UNCHANGED <<rqVars, phase>>
    \/ \E t \in Tasks : End(t) /\ UNCHANGED <<rqVars, phase>>

SpecNoSaveError == Init /\ [][NextNoSaveError]_vars

\* Task t has left the while loop through line 166-167: the page it received
\* last carried items and has_more = false.
EndedNoMore(t) ==
    /\ pc[t] = "end"
    /\ resp[t] = "200"
    /\ data[t] \in Pages
    /\ PageItems(data[t]) # <<>>
    /\ ~HasMore(data[t])

\* C18: with pairwise distinct truncated timestamps and no save error, when
\* a run ends because the remote signalled has_more = false, every item of
\* every page from the beginning up to that last page has its MessageRecord
\* on disk.
C18_FinishedSyncComplete ==
    \A t \in Tasks :
        (~collide /\ EndedNoMore(t))
            => \A p \in 1..data[t] : \A i \in 1..Len(PageItems(p)) :
                  chat[ItemPath(PageItems(p)[i])] = PageItems(p)[i]

\* C19: the running flag is never left stuck: when every sync_history task is
\* over, sync_running is false, so the next start request is accepted.
C19_FlagClearWhenIdle ==
    (\A t \in Tasks : pc[t] = "idle") => ~sync_running

\* ------------------------------------------------- scheduled execution
\* The routes with the history of start and stop requests kept in phase:
\* "started" once manual_sync has scheduled a task, "stopped" once stop_sync
\* has run after that, "started" again with the next scheduled task.
SyncRoute ==
    /\ manual_sync
    /\ phase' = IF pc' # pc THEN "started" ELSE phase
    /\ UNCHANGED rqVars

StopRoute ==
    /\ stop_sync
    /\ phase' = IF phase = "started" THEN "stopped" ELSE phase
    /\ UNCHANGED rqVars

\* One remote history: distinct seconds, page 2 without next_cursor.
InitLive == Init /\ ~collide /\ p2next = None

\* A step of a sync_history task: the request harness and the request
\* history stay as they are.
TaskStep(t) ==
    /\ \/ Begin(t)
       \/ While(t)
       \/ Fetch(t)
       \/ For(t)
       \/ SaveWith(t, {"ok"})
       \/ Resume(t)
       \/ Ckpt(t)
       \/ End(t)
    /\ UNCHANGED <<rqVars, phase>>

NextLive ==
    \/ SyncRoute
    \/ StopRoute
    \/ \E t \in Tasks : TaskStep(t)

\* The asyncio event loop runs every ready callback in FIFO order: a task
\* scheduled by add_task is started and a task suspended in asyncio.sleep(0)
\* is resumed however often other tasks take the loop (strong fairness), and
\* a coroutine that holds the loop runs on to its next await or to its end,
\* every safe_request call returning (weak fairness).  The routes are the
\* client's to call and carry no fairness.
Fairness ==
    \A t \in Tasks :
        /\ SF_vars(TaskStep(t) /\ pc[t] \in {"scheduled", "sleep"})
        /\ WF_vars(TaskStep(t) /\ pc[t] \notin {"scheduled", "sleep"})

SpecLive == InitLive /\ [][NextLive]_vars /\ Fairness

\* No sync_history task is scheduled or running and the flag is down.
Quiet == ~sync_running /\ \A t \in Tasks : pc[t] = "idle"

\* C20: a stop request is never lost: once a stop has been handled after an
\* accepted start, then, unless a later start is accepted, eventually no
\* sync loop is active and sync_running is false.
C20_StopNeverLost == (phase = "stopped") ~> (phase = "started" \/ Quiet)

====
